---------------------------- MODULE Spec2Model ----------------------------
(***************************************************************************)
(* Model of src/automated/marktstammdatenregister-storage-sync.py: the     *)
(* plausibility pipeline (consistency filter, market segment               *)
(* categorisation, correction) and the Directus reconciliation.            *)
(*                                                                         *)
(* Quantities.  Capacities (kWh) and powers (kW) are Python floats in the  *)
(* source.  Here they are exact fixed-point numbers counted in thousandths *)
(* (1000 units per kWh or kW): 0.3 is 300, 30 is 30000, 1000 is 1000000.   *)
(* Comparisons and quotients are exact; the binary rounding of IEEE-754    *)
(* quotients is not modelled, except in round(x, 2), whose halfway cases   *)
(* are a nondeterministic choice (parameter ties).                         *)
(*                                                                         *)
(* Optional values.  Python's None is the empty tuple, a present value x   *)
(* is the one-element tuple <<x>>.  dict.get of a missing key gives None,  *)
(* so a missing key and a None value are the same thing here.              *)
(*                                                                         *)
(* Text.  Values that the code only compares or tests for truth are TLA+   *)
(* strings.  Values that the code slices, lower-cases or searches (dates,  *)
(* voltage level, grid operator review status) are tuples of characters.   *)
(* The character "uuml" stands for the letter u-umlaut.                    *)
(***************************************************************************)
EXTENDS Integers, Sequences, FiniteSets, TLC

VARIABLES
    record,         \* SpecRecord: the battery record under test
    rpc,            \* SpecRecord: position in the per-battery loop body
    consistent,     \* SpecRecord: result of passes_consistency_check
    segment,        \* SpecRecord: result of categorize_battery
    corrected_record, \* SpecRecord: the record as the correction step returns it
    pc,             \* Spec: position in main()
    records,        \* Spec: list produced by map_to_directus_schema
    non_batteries,  \* Spec: apply_plausibility_checks, non-battery partition
    valid,          \* Spec: accepted batteries (category set)
    filtered,       \* Spec: rejected and demoted batteries
    corrected,      \* Spec: output of correct_filtered_entries
    result,         \* Spec: list returned by apply_plausibility_checks
    spc,            \* SpecSync: position in main() steps 4 and 5
    sync_records,   \* SpecSync: records handed to sync_to_directus
    directus,       \* SpecSync: ids stored in the Directus collection
    existing_ids,   \* SpecSync: id set pre-fetched by get_all_directus_ids
    to_insert,      \* SpecSync: records whose id is not in existing_ids
    to_update,      \* SpecSync: records whose id is in existing_ids
    tasks,          \* SpecSync: (operation, batch) list of the full-mode path
    df_empty,       \* SpecSync: len(df) == 0 after download_storage_data
    rerun,          \* SpecSync: this is the run that follows a finished run
    first_clean,    \* SpecSync: every request of the previous run succeeded
    prefetch_ok,    \* SpecSync: the pre-fetch read every page without error
    task_state,     \* SpecSync: per task, the future's status and call state
    total_inserted, \* SpecSync: sum of the insert futures' results
    total_updated,  \* SpecSync: sum of the update futures' results
    total_deleted,  \* SpecSync: deleted counter of delete_stale_records_by_ids
    stale_left,     \* SpecSync: stale ids not yet sent in a DELETE
    delete_requested, \* SpecSync: ids sent in a DELETE in this run
    auth_failed,    \* SpecSync: a response of this run had status 401
    argv,           \* SpecSync: the flags on the command line (sys.argv)
    offset,         \* SpecSync: index i of the incremental loop over records
    call,           \* SpecBatch: one batch call, its loop state
    responses,      \* SpecBatch: responses received by the call, in order
    sleeps          \* SpecBatch: arguments of time.sleep, in order

vars == <<record, rpc, consistent, segment, corrected_record, pc, records, non_batteries,
          valid, filtered, corrected, result, spc, sync_records, directus,
          existing_ids, to_insert, to_update, tasks, df_empty, rerun,
          first_clean, prefetch_ok, task_state, total_inserted, total_updated,
          total_deleted, stale_left, delete_requested, auth_failed, argv,
          offset, call, responses, sleeps>>

recordVars == <<record, rpc, consistent, segment, corrected_record>>
pipelineVars == <<pc, records, non_batteries, valid, filtered, corrected, result>>
syncVars == <<spc, sync_records, directus, existing_ids, to_insert, to_update,
              tasks, df_empty, rerun, first_clean, prefetch_ok, task_state,
              total_inserted, total_updated, total_deleted, stale_left,
              delete_requested, auth_failed, argv, offset>>
batchVars == <<call, responses, sleeps>>
reconcileVars == <<syncVars, batchVars>>

-----------------------------------------------------------------------------
(* Optional values and text *)

None == <<>>

Some(x) == <<x>>

\* Python truth value of an optional TLA+ string: None and '' are false.
Truthy(s) == s # None /\ s[1] # ""

\* Python truth value of an optional character tuple: None and '' are false.
TruthyText(s) == s # None /\ Len(s[1]) > 0

\* `x or ''` for an optional character tuple.
OrEmpty(s) == IF TruthyText(s) THEN s[1] ELSE <<>>

LowerChar(c) ==
    CASE c = "G" -> "g"
      [] c = "I" -> "i"
      [] c = "M" -> "m"
      [] c = "N" -> "n"
      [] c = "P" -> "p"
      [] c = "U" -> "u"
      [] OTHER -> c

\* str.lower()
Lower(s) == [i \in 1..Len(s) |-> LowerChar(s[i])]

\* `sub in s` for two character tuples
Contains(sub, s) ==
    \E i \in 0..(Len(s) - Len(sub)) : SubSeq(s, i + 1, i + Len(sub)) = sub

\* date_str[:7] if date_str and len(date_str) >= 7 else None
MonthOf(date_str) ==
    IF TruthyText(date_str) /\ Len(date_str[1]) >= 7
    THEN Some(SubSeq(date_str[1], 1, 7))
    ELSE None

niederspannung == <<"n","i","e","d","e","r","s","p","a","n","n","u","n","g">>
geprueft == <<"g","e","p","r","u","e","f","t">>
gepruft == <<"g","e","p","r","uuml","f","t">>

-----------------------------------------------------------------------------
(* Program constants, in thousandths *)

MinDimension == 300
HeimLimit == 30000
GrossLimit == 1000000
EPMinInverse == 10
EPMax == 12
RoundStep == 10

-----------------------------------------------------------------------------
(* Record model *)

Rec(id, tech, cap, pwr, bt, date, np, volt, review) ==
    [id |-> id,
     technology |-> tech,
     usable_storage_capacity_kwh |-> cap,
     power_kw |-> pwr,
     battery_technology |-> bt,
     commissioning_date |-> date,
     is_natural_person |-> np,                 \* _is_natural_person
     voltage_level |-> volt,                   \* _voltage_level
     grid_operator_review_status |-> review,
     category |-> None]                        \* not set by the mapping step

-----------------------------------------------------------------------------
(* Step 1: consistency filter *)

\* variant: the lower bound of the ratio is exclusive
passes_consistency_check_strict(r) ==
    LET capacity == r.usable_storage_capacity_kwh
        power == r.power_kw
    IN  IF capacity = None \/ capacity[1] <= MinDimension THEN FALSE
        ELSE IF power = None \/ power[1] <= MinDimension THEN FALSE
        ELSE IF ~Truthy(r.battery_technology) THEN FALSE
        ELSE IF ~TruthyText(r.commissioning_date) THEN FALSE
        ELSE IF capacity[1] * EPMinInverse <= power[1]
                \/ capacity[1] > EPMax * power[1] THEN FALSE
        ELSE TRUE

\* variant: gate 4 (the commissioning date) is missing
passes_consistency_check_no_date(r) ==
    LET capacity == r.usable_storage_capacity_kwh
        power == r.power_kw
    IN  IF capacity = None \/ capacity[1] <= MinDimension THEN FALSE
        ELSE IF power = None \/ power[1] <= MinDimension THEN FALSE
        ELSE IF ~Truthy(r.battery_technology) THEN FALSE
        ELSE IF capacity[1] * EPMinInverse < power[1]
                \/ capacity[1] > EPMax * power[1] THEN FALSE
        ELSE TRUE

\* variant: gate 5 (the E/P ratio) is missing
passes_consistency_check_no_ratio(r) ==
    LET capacity == r.usable_storage_capacity_kwh
        power == r.power_kw
    IN  IF capacity = None \/ capacity[1] <= MinDimension THEN FALSE
        ELSE IF power = None \/ power[1] <= MinDimension THEN FALSE
        ELSE IF ~Truthy(r.battery_technology) THEN FALSE
        ELSE IF ~TruthyText(r.commissioning_date) THEN FALSE
        ELSE TRUE

passes_consistency_check(r) ==
    LET capacity == r.usable_storage_capacity_kwh
        power == r.power_kw
        bat_tech == r.battery_technology
        date == r.commissioning_date
    IN  IF capacity = None \/ capacity[1] <= MinDimension THEN FALSE
        ELSE IF power = None \/ power[1] <= MinDimension THEN FALSE
        ELSE IF ~Truthy(bat_tech) THEN FALSE
        ELSE IF ~TruthyText(date) THEN FALSE
        ELSE IF power[1] = 0 THEN FALSE                    \* ZeroDivisionError
        \* ep_ratio < 0.1 or ep_ratio > 12, with ep_ratio = capacity / power
        ELSE IF capacity[1] * EPMinInverse < power[1]
                \/ capacity[1] > EPMax * power[1] THEN FALSE
        ELSE TRUE

-----------------------------------------------------------------------------
(* Step 2: market segment categorisation *)

\* variant: guard (a) is missing
fails_operator_guard_never(r) == FALSE

\* guard (a): the operator is a natural person
fails_operator_guard(r) == r.is_natural_person

\* guard (b): low-voltage connection that the grid operator has not reviewed
fails_voltage_guard(r) ==
    LET voltage == Lower(OrEmpty(r.voltage_level))
        review == Lower(OrEmpty(r.grid_operator_review_status))
    IN  /\ Contains(niederspannung, voltage)
        /\ ~Contains(geprueft, review)
        /\ ~Contains(gepruft, review)

\* variant: the residential thresholds are inclusive
categorize_battery_inclusive(r) ==
    LET capacity == r.usable_storage_capacity_kwh
        power == r.power_kw
    IN  IF capacity = None \/ power = None THEN None
        ELSE IF capacity[1] <= HeimLimit /\ power[1] <= HeimLimit
             THEN Some("Heimspeicher")
        ELSE IF capacity[1] >= GrossLimit /\ power[1] >= GrossLimit
             THEN IF fails_operator_guard(r) THEN None
                  ELSE IF fails_voltage_guard(r) THEN None
                  ELSE Some("Grossspeicher")
        ELSE Some("Gewerbespeicher")

categorize_battery(r) ==
    LET capacity == r.usable_storage_capacity_kwh
        power == r.power_kw
    IN  IF capacity = None \/ power = None THEN None
        ELSE IF capacity[1] < HeimLimit /\ power[1] < HeimLimit
             THEN Some("Heimspeicher")
        ELSE IF capacity[1] >= GrossLimit /\ power[1] >= GrossLimit
             THEN IF fails_operator_guard(r) THEN None
                  ELSE IF fails_voltage_guard(r) THEN None
                  ELSE Some("Grossspeicher")
        ELSE Some("Gewerbespeicher")

-----------------------------------------------------------------------------
(* SpecRecord: one battery record taken through the loop bodies of steps 1 *)
(* and 2 of apply_plausibility_checks.                                     *)

Date1 == <<"2","0","2","4","-","0","3","-","1","5">>
Date2 == <<"2","0","2","4","-","0","4","-","0","1">>

TextNiederspannung == <<"N","i","e","d","e","r","s","p","a","n","n","u","n","g">>
TextMittelspannung == <<"M","i","t","t","e","l","s","p","a","n","n","u","n","g">>
TextGeprueft == <<"G","e","p","r","u","e","f","t">>
TextGepruft == <<"G","e","p","r","uuml","f","t">>
TextInPruefung == <<"I","n"," ","P","r","u","e","f","u","n","g">>
TextUngeprueft == <<"U","n","g","e","p","r","u","e","f","t">>

\* capacity values: absent, 0, 0.3, 0.301, 1, 12, 12.1, 29.9, 30, 999.999, 1000, 1200
CapacityValues ==
    {None} \cup {Some(v) : v \in {0, 300, 301, 1000, 12000, 12100, 29900,
                                  30000, 999999, 1000000, 1200000}}

\* power values: absent, 0, 0.3, 0.301, 1, 9.99, 10, 10.001, 29.9, 30, 1000, 1500
PowerValues ==
    {None} \cup {Some(v) : v \in {0, 300, 301, 1000, 9990, 10000, 10001,
                                  29900, 30000, 1000000, 1500000}}

BatTechValues == {None, Some(""), Some("Sonstige")}

DateValues == {None, Some(Date1)}

VoltageValues == {None, Some(TextNiederspannung), Some(TextMittelspannung)}

ReviewValues == {None, Some(TextGeprueft), Some(TextGepruft),
                 Some(TextInPruefung), Some(TextUngeprueft)}

BatteryRecords ==
    {Rec("a", Some("Batterie"), cap, pwr, bt, date, np, volt, review) :
        cap \in CapacityValues, pwr \in PowerValues, bt \in BatTechValues,
        date \in DateValues, np \in BOOLEAN, volt \in VoltageValues,
        review \in ReviewValues}

PipelineIdle ==
    /\ pc = "idle"
    /\ records = <<>>
    /\ non_batteries = <<>>
    /\ valid = <<>>
    /\ filtered = <<>>
    /\ corrected = <<>>
    /\ result = <<>>

SyncIdle ==
    /\ spc = "idle"
    /\ sync_records = <<>>
    /\ directus = {}
    /\ existing_ids = None
    /\ to_insert = <<>>
    /\ to_update = <<>>
    /\ tasks = <<>>
    /\ df_empty = TRUE
    /\ rerun = FALSE
    /\ first_clean = FALSE
    /\ prefetch_ok = FALSE
    /\ task_state = <<>>
    /\ total_inserted = 0
    /\ total_updated = 0
    /\ total_deleted = 0
    /\ stale_left = {}
    /\ delete_requested = {}
    /\ auth_failed = FALSE
    /\ argv = {}
    /\ offset = 0

BatchIdle ==
    /\ call = [op |-> "idle", size |-> 0, attempt |-> 0, requests |-> 0,
               returned |-> TRUE, result |-> 0]
    /\ responses = <<>>
    /\ sleeps = <<>>

RecordInit ==
    /\ record \in BatteryRecords
    /\ rpc = "filter"
    /\ consistent = FALSE
    /\ segment = None
    /\ corrected_record = None
    /\ PipelineIdle
    /\ SyncIdle
    /\ BatchIdle

\* for r in batteries: if passes_consistency_check(r): valid.append(r)
\*                     else: filtered.append(r)
CheckConsistency ==
    /\ rpc = "filter"
    /\ consistent' = passes_consistency_check(record)
    /\ rpc' = IF consistent' THEN "categorize" ELSE "filtered"
    /\ UNCHANGED <<record, segment, corrected_record>>
    /\ UNCHANGED pipelineVars
    /\ UNCHANGED reconcileVars

\* for r in valid: cat = categorize_battery(r)
\*                 if cat: r['category'] = cat  else: demoted.append(r)
Categorize ==
    /\ rpc = "categorize"
    /\ segment' = categorize_battery(record)
    /\ rpc' = IF Truthy(segment') THEN "valid" ELSE "demoted"
    /\ UNCHANGED <<record, consistent, corrected_record>>
    /\ UNCHANGED pipelineVars
    /\ UNCHANGED reconcileVars

-----------------------------------------------------------------------------
(* Step 3: correction of filtered entries *)

RECURSIVE SumCap(_)
SumCap(rs) ==
    IF rs = <<>> THEN 0
    ELSE Head(rs).usable_storage_capacity_kwh[1] + SumCap(Tail(rs))

RECURSIVE SumPwr(_)
SumPwr(rs) ==
    IF rs = <<>> THEN 0
    ELSE Head(rs).power_kw[1] + SumPwr(Tail(rs))

\* round(total / n, 2): the mean, to the nearest multiple of 0.01.  A mean
\* that lies exactly halfway between two multiples goes up or down (up).
Round2(total, n, up) ==
    LET q == total \div (RoundStep * n)
        rem == total % (RoundStep * n)
    IN  IF 2 * rem < RoundStep * n THEN RoundStep * q
        ELSE IF 2 * rem > RoundStep * n THEN RoundStep * (q + 1)
        ELSE IF up THEN RoundStep * (q + 1) ELSE RoundStep * q

\* the entries of `valid` that the statistics loop does not skip
Counted(r) ==
    /\ Truthy(r.category)
    /\ r.usable_storage_capacity_kwh # None
    /\ r.power_kw # None

\* the entries summed into monthly_sums[(cat, month)]
MonthlyBucket(ref, cat, month) ==
    LET In(r) == /\ Counted(r)
                 /\ r.category = Some(cat)
                 /\ MonthOf(r.commissioning_date) # None
                 /\ MonthOf(r.commissioning_date) = month
    IN  SelectSeq(ref, In)

\* the entries summed into category_sums[cat]
CategoryBucket(ref, cat) ==
    LET In(r) == Counted(r) /\ r.category = Some(cat)
    IN  SelectSeq(ref, In)

\* variant: a legal entity's utility-scale-sized entry is corrected to Grossspeicher
assigned_category_by_size(r) ==
    IF r.is_natural_person THEN "Heimspeicher"
    ELSE IF /\ r.usable_storage_capacity_kwh # None
            /\ r.power_kw # None
            /\ r.usable_storage_capacity_kwh[1] >= GrossLimit
            /\ r.power_kw[1] >= GrossLimit
         THEN "Grossspeicher"
    ELSE "Gewerbespeicher"

\* variant: every corrected entry is commercial
assigned_category_commercial(r) == "Gewerbespeicher"

\* the category assigned by operator type
assigned_category(r) ==
    IF r.is_natural_person THEN "Heimspeicher" ELSE "Gewerbespeicher"

\* variant: the category average is looked up before the monthly average
correct_entry_category_first(r, ref, ties) ==
    LET cat == assigned_category(r)
        month == MonthOf(r.commissioning_date)
        mb == IF month = None THEN <<>> ELSE MonthlyBucket(ref, cat, month)
        cb == CategoryBucket(ref, cat)
        r1 == [r EXCEPT !.category = Some(cat)]
    IN  IF Len(cb) > 0
        THEN [r1 EXCEPT
                !.usable_storage_capacity_kwh =
                    Some(Round2(SumCap(cb), Len(cb), ties.cap)),
                !.power_kw = Some(Round2(SumPwr(cb), Len(cb), ties.pwr))]
        ELSE IF Len(mb) > 0
        THEN [r1 EXCEPT
                !.usable_storage_capacity_kwh =
                    Some(Round2(SumCap(mb), Len(mb), ties.cap)),
                !.power_kw = Some(Round2(SumPwr(mb), Len(mb), ties.pwr))]
        ELSE r1

\* variant: without an average of the category, the average of all accepted
\* entries is taken
correct_entry_any_category(r, ref, ties) ==
    LET cat == assigned_category(r)
        month == MonthOf(r.commissioning_date)
        mb == IF month = None THEN <<>> ELSE MonthlyBucket(ref, cat, month)
        cb == CategoryBucket(ref, cat)
        ab == SelectSeq(ref, Counted)
        r1 == [r EXCEPT !.category = Some(cat)]
        bucket == IF Len(mb) > 0 THEN mb ELSE IF Len(cb) > 0 THEN cb ELSE ab
    IN  IF Len(bucket) > 0
        THEN [r1 EXCEPT
                !.usable_storage_capacity_kwh =
                    Some(Round2(SumCap(bucket), Len(bucket), ties.cap)),
                !.power_kw = Some(Round2(SumPwr(bucket), Len(bucket), ties.pwr))]
        ELSE r1

\* body of the loop `for r in filtered`, with the averages of `ref`
correct_entry(r, ref, ties) ==
    LET cat == assigned_category(r)
        month == MonthOf(r.commissioning_date)
        mb == IF month = None THEN <<>> ELSE MonthlyBucket(ref, cat, month)
        cb == CategoryBucket(ref, cat)
        r1 == [r EXCEPT !.category = Some(cat)]
    IN  IF Len(mb) > 0
        THEN [r1 EXCEPT
                !.usable_storage_capacity_kwh =
                    Some(Round2(SumCap(mb), Len(mb), ties.cap)),
                !.power_kw = Some(Round2(SumPwr(mb), Len(mb), ties.pwr))]
        ELSE IF Len(cb) > 0
        THEN [r1 EXCEPT
                !.usable_storage_capacity_kwh =
                    Some(Round2(SumCap(cb), Len(cb), ties.cap)),
                !.power_kw = Some(Round2(SumPwr(cb), Len(cb), ties.pwr))]
        ELSE r1

\* variant: every corrected entry joins the reference population of the next
RECURSIVE correct_filtered_entries_chained(_, _, _)
correct_filtered_entries_chained(filt, ref, ties) ==
    IF filt = <<>> THEN <<>>
    ELSE <<correct_entry(Head(filt), ref, ties)>>
         \o correct_filtered_entries_chained(
                Tail(filt), Append(ref, correct_entry(Head(filt), ref, ties)), ties)

correct_filtered_entries(filt, ref, ties) ==
    [i \in 1..Len(filt) |-> correct_entry(filt[i], ref, ties)]

-----------------------------------------------------------------------------
(* Orchestration *)

TECH_MAP(tech) ==
    CASE tech = "Pumpspeicher" -> "Pumpspeicher"
      [] tech = "Druckluft" -> "Druckluft"
      [] tech = "Wasserstoffspeicher" -> "Wasserstoffspeicher"
      [] tech = "Schwungrad" -> "Schwungrad"
      [] OTHER -> tech

\* r['category'] = TECH_MAP.get(tech, tech) if tech else None
non_battery_category(r) ==
    IF Truthy(r.technology) THEN Some(TECH_MAP(r.technology[1])) ELSE None

\* variant: demoted entries are dropped
extend_filtered_dropping(filt, demoted) == filt

\* filtered.extend(demoted)
extend_filtered(filt, demoted) == filt \o demoted

apply_plausibility_checks(recs, ties) ==
    LET IsBattery(r) == r.technology = Some("Batterie")
        NotBattery(r) == r.technology # Some("Batterie")
        Passes(r) == passes_consistency_check(r)
        Fails(r) == ~passes_consistency_check(r)
        batteries == SelectSeq(recs, IsBattery)
        nonbat0 == SelectSeq(recs, NotBattery)
        nonbat == [i \in 1..Len(nonbat0) |->
                      [nonbat0[i] EXCEPT !.category = non_battery_category(nonbat0[i])]]
        valid1 == SelectSeq(batteries, Passes)
        filtered1 == SelectSeq(batteries, Fails)
        \* step 2: r['category'] = cat when cat is truthy
        valid2 == [i \in 1..Len(valid1) |->
                      IF Truthy(categorize_battery(valid1[i]))
                      THEN [valid1[i] EXCEPT !.category = categorize_battery(valid1[i])]
                      ELSE valid1[i]]
        HasCategory(r) == Truthy(r.category)
        NoCategory(r) == ~Truthy(categorize_battery(r))
        demoted == SelectSeq(valid1, NoCategory)
        valid3 == SelectSeq(valid2, HasCategory)
        filtered2 == extend_filtered(filtered1, demoted)
        corr == correct_filtered_entries(filtered2, valid3, ties)
    IN  IF batteries = <<>>
        THEN [non_batteries |-> nonbat, valid |-> <<>>, filtered |-> <<>>,
              corrected |-> <<>>, result |-> nonbat]
        ELSE [non_batteries |-> nonbat, valid |-> valid3, filtered |-> filtered2,
              corrected |-> corr, result |-> nonbat \o valid3 \o corr]

-----------------------------------------------------------------------------
(* Spec: main() from the mapping step to the end of the plausibility       *)
(* pipeline.                                                               *)

MaxRecords == 3

Sonstige == Some("Sonstige")

Battery(id, cap, pwr, date, np, volt) ==
    Rec(id, Some("Batterie"), cap, pwr, Sonstige, date, np, volt, None)

\* The records the mapping step hands over.  Ids repeat when the operator
\* join of download_storage_data duplicates a row.
MappedRecords ==
    {\* consistent batteries: residential (two months), commercial, utility-scale
     Battery("a", Some(1004), Some(1000), Some(Date1), TRUE, None),
     Battery("b", Some(1004), Some(1000), Some(Date1), TRUE, None),
     Battery("a", Some(2005), Some(2000), Some(Date2), FALSE, None),
     Battery("a", Some(50000), Some(50000), Some(Date1), FALSE, None),
     Battery("a", Some(1200000), Some(1500000), Some(Date1), FALSE, None),
     \* utility-scale candidates that fail a guard
     Battery("a", Some(1200000), Some(1500000), Some(Date1), TRUE, None),
     Battery("a", Some(1200000), Some(1200000), Some(Date1), FALSE,
             Some(TextNiederspannung)),
     \* inconsistent batteries: ratio 12.1, capacity absent, date absent
     Battery("a", Some(12100), Some(1000), Some(Date1), FALSE, None),
     Battery("a", None, Some(1000), Some(Date2), TRUE, None),
     Battery("b", None, Some(1000), Some(Date2), TRUE, None),
     Battery("a", Some(1004), Some(1000), None, TRUE, None),
     \* other technologies, technology absent
     Rec("a", Some("Wasserstoffspeicher"), Some(500000), None, None, Some(Date1),
         FALSE, None, None),
     Rec("b", Some("Wasserstoffspeicher"), Some(500000), None, None, Some(Date1),
         FALSE, None, None),
     Rec("a", None, None, Some(1000), None, None, FALSE, None, None)}

TieChoices == [cap : BOOLEAN, pwr : BOOLEAN]

RecordIdle ==
    /\ record = Rec("a", None, None, None, None, None, FALSE, None, None)
    /\ rpc = "idle"
    /\ consistent = FALSE
    /\ segment = None
    /\ corrected_record = None

\* filtered.extend(demoted); corrected = correct_filtered_entries(filtered,
\* valid), for the one battery of SpecRecord: when it was rejected or
\* demoted, the accepted set is empty
Correct ==
    /\ rpc \in {"filtered", "demoted"}
    /\ \E ties \in TieChoices :
          corrected_record' =
              Some(correct_filtered_entries(extend_filtered(<<>>, <<record>>),
                                            <<>>, ties)[1])
    /\ rpc' = "corrected"
    /\ UNCHANGED <<record, consistent, segment>>
    /\ UNCHANGED pipelineVars
    /\ UNCHANGED reconcileVars

RecordNext == CheckConsistency \/ Categorize \/ Correct

SpecRecord == RecordInit /\ [][RecordNext]_vars

Init ==
    /\ pc = "map"
    /\ records = <<>>
    /\ non_batteries = <<>>
    /\ valid = <<>>
    /\ filtered = <<>>
    /\ corrected = <<>>
    /\ result = <<>>
    /\ RecordIdle
    /\ SyncIdle
    /\ BatchIdle

\* one row of the DataFrame becomes one record of map_to_directus_schema's list
MapRecord ==
    /\ pc = "map"
    /\ Len(records) < MaxRecords
    /\ \E r \in MappedRecords : records' = Append(records, r)
    /\ UNCHANGED <<pc, non_batteries, valid, filtered, corrected, result>>
    /\ UNCHANGED recordVars
    /\ UNCHANGED reconcileVars

\* records = apply_plausibility_checks(records)
ApplyPlausibilityChecks ==
    /\ pc = "map"
    /\ \E ties \in TieChoices :
          LET out == apply_plausibility_checks(records, ties)
          IN  /\ non_batteries' = out.non_batteries
              /\ valid' = out.valid
              /\ filtered' = out.filtered
              /\ corrected' = out.corrected
              /\ result' = out.result
    /\ pc' = "checked"
    /\ UNCHANGED records
    /\ UNCHANGED recordVars
    /\ UNCHANGED reconcileVars

Next == MapRecord \/ ApplyPlausibilityChecks

Spec == Init /\ [][Next]_vars

-----------------------------------------------------------------------------
(* SpecOrder: apply_plausibility_checks on the rows of one export in every *)
(* order.  Three residential batteries whose mean capacity, 19.445, lies   *)
(* halfway between two multiples of 0.01; one battery without capacity;    *)
(* two records of other technologies.  The float sum of three or more      *)
(* values depends on the order of the additions, and with it the side of   *)
(* the halfway point the mean falls on: that is the choice (ties).         *)

MaxOrderRecords == 4

OrderRecords ==
    {Battery("a", Some(23944), Some(10000), Some(Date1), FALSE, None),
     Battery("b", Some(26575), Some(10000), Some(Date1), FALSE, None),
     Battery("c", Some(7816), Some(10000), Some(Date1), FALSE, None),
     Battery("d", None, Some(10000), Some(Date1), TRUE, None),
     Rec("e", Some("Pumpspeicher"), Some(1200000), Some(1500000), None, None,
         TRUE, Some(TextNiederspannung), None),
     Rec("f", Some(""), Some(100), Some(0), None, None, FALSE, None, None)}

OrderInit ==
    /\ pc = "map"
    /\ records \in UNION {[1..n -> OrderRecords] : n \in 0..MaxOrderRecords}
    /\ non_batteries = <<>>
    /\ valid = <<>>
    /\ filtered = <<>>
    /\ corrected = <<>>
    /\ result = <<>>
    /\ RecordIdle
    /\ SyncIdle
    /\ BatchIdle

OrderNext == ApplyPlausibilityChecks

SpecOrder == OrderInit /\ [][OrderNext]_vars

-----------------------------------------------------------------------------
(* SpecSync: main() steps 4 and 5 in full mode, the reconciliation with    *)
(* Directus.  sync_to_directus reads only the id of a record, so a record  *)
(* is its id here.                                                         *)

BATCH_SIZE == 2

MaxSyncRecords == 3

\* ids of the incoming records, and ids that only Directus knows
IncomingIds == {"a", "b"}

DirectusIds == {"a", "b", "c"}

SyncRecord(id) == [id |-> id]

SyncRecordLists ==
    UNION {[1..n -> {SyncRecord(id) : id \in IncomingIds}] : n \in 0..MaxSyncRecords}

\* variant: every record is sent as an update
partition_update_all(recs, existing) == recs

\* variant: every record is sent as an insert
partition_insert_all(recs, existing) == recs

\* variant: no record is sent as an update
partition_update_none(recs, existing) == <<>>

\* to_insert = [r for r in records if r['id'] not in existing_ids]
partition_insert(recs, existing) ==
    LET New(r) == r.id \notin existing
    IN  SelectSeq(recs, New)

\* to_update = [r for r in records if r['id'] in existing_ids]
partition_update(recs, existing) ==
    LET Known(r) == r.id \in existing
    IN  SelectSeq(recs, Known)

\* [items[i:i + BATCH_SIZE] for i in range(0, len(items), BATCH_SIZE)]
RECURSIVE Batches(_)
Batches(items) ==
    IF items = <<>> THEN <<>>
    ELSE IF Len(items) <= BATCH_SIZE THEN <<items>>
    ELSE <<SubSeq(items, 1, BATCH_SIZE)>>
         \o Batches(SubSeq(items, BATCH_SIZE + 1, Len(items)))

\* the (operation, batch) task list
build_tasks(ins, upd) ==
    [i \in 1..Len(Batches(ins)) |-> [op |-> "insert", batch |-> Batches(ins)[i]]]
    \o [i \in 1..Len(Batches(upd)) |-> [op |-> "update", batch |-> Batches(upd)[i]]]

-----------------------------------------------------------------------------
(* One batch call: batch_insert, batch_update, and one iteration of the    *)
(* loop of delete_stale_records_by_ids.  A response is <<status>>, or None *)
(* when requests raised an exception (timeout, connection error).          *)

max_retries == 3

retry_delay == 2

Statuses == {200, 201, 204, 401, 503}

Responses == {Some(s) : s \in Statuses} \cup {None}

\* response.status_code in [200, 201] for POST, in [200, 204] for PATCH
\* and DELETE
success_status(op) == IF op = "insert" THEN {200, 201} ELSE {200, 204}

succeeded(op, resp) == resp # None /\ resp[1] \in success_status(op)

\* elif response.status_code == 503, and the except branch
retried(resp) == resp = None \/ resp[1] = 503

\* retry_delay * (2 ** attempt)
backoff(attempt) == retry_delay * (2 ^ attempt)

\* a call before its first request; if not batch: return 0
batch_start(op, size) ==
    [op |-> op, size |-> size, attempt |-> 0, requests |-> 0,
     returned |-> (size = 0 \/ max_retries <= 0), result |-> 0]

\* variant: a retried attempt is followed by another one without a ceiling
batch_attempt_unbounded(c, resp) ==
    IF succeeded(c.op, resp)
    THEN [c EXCEPT !.requests = @ + 1, !.returned = TRUE, !.result = c.size]
    ELSE IF retried(resp)
    THEN [c EXCEPT !.requests = @ + 1, !.attempt = @ + 1]
    ELSE [c EXCEPT !.requests = @ + 1, !.returned = TRUE]

\* variant: every response that is not a success is retried
batch_attempt_retry_all(c, resp) ==
    IF succeeded(c.op, resp)
    THEN [c EXCEPT !.requests = @ + 1, !.returned = TRUE, !.result = c.size]
    ELSE [c EXCEPT !.requests = @ + 1, !.attempt = @ + 1,
                   !.returned = (c.attempt + 1 >= max_retries)]

\* one iteration of: for attempt in range(max_retries); the loop ends
\* (return 0) when the last iteration was a retried one
batch_attempt(c, resp) ==
    IF succeeded(c.op, resp)
    THEN [c EXCEPT !.requests = @ + 1, !.returned = TRUE, !.result = c.size]
    ELSE IF retried(resp)
    THEN [c EXCEPT !.requests = @ + 1, !.attempt = @ + 1,
                   !.returned = (c.attempt + 1 >= max_retries)]
    ELSE [c EXCEPT !.requests = @ + 1, !.returned = TRUE]

\* one iteration of the loop of delete_stale_records_by_ids: one DELETE,
\* its outcome counted or logged
delete_attempt(c, resp) ==
    [c EXCEPT !.requests = @ + 1, !.returned = TRUE,
              !.result = IF succeeded(c.op, resp) THEN c.size ELSE 0]

(* SpecBatch: one call with a batch of 0..BATCH_SIZE items (a DELETE is    *)
(* only sent for a non-empty slice)                                        *)

BatchInit ==
    /\ \E op \in {"insert", "update", "delete"}, size \in 0..BATCH_SIZE :
          /\ op = "delete" => size > 0
          /\ call = batch_start(op, size)
    /\ responses = <<>>
    /\ sleeps = <<>>
    /\ PipelineIdle
    /\ RecordIdle
    /\ SyncIdle

\* requests.post / requests.patch and the branch taken on its outcome
BatchRequest ==
    /\ call.op \in {"insert", "update"}
    /\ ~call.returned
    /\ \E resp \in Responses :
          /\ call' = batch_attempt(call, resp)
          /\ responses' = Append(responses, resp)
          /\ sleeps' = IF ~succeeded(call.op, resp) /\ retried(resp)
                       THEN Append(sleeps, backoff(call.attempt))
                       ELSE sleeps
    /\ UNCHANGED recordVars
    /\ UNCHANGED pipelineVars
    /\ UNCHANGED syncVars

\* requests.delete and the branch taken on its outcome
DeleteRequest ==
    /\ call.op = "delete"
    /\ ~call.returned
    /\ \E resp \in Responses :
          /\ call' = delete_attempt(call, resp)
          /\ responses' = Append(responses, resp)
    /\ UNCHANGED sleeps
    /\ UNCHANGED recordVars
    /\ UNCHANGED pipelineVars
    /\ UNCHANGED syncVars

BatchNext == BatchRequest \/ DeleteRequest

SpecBatch == BatchInit /\ [][BatchNext]_vars

-----------------------------------------------------------------------------
(* SpecSync, continued: one run of main() in full mode, and the run that   *)
(* follows it with the same input                                          *)

MAX_WORKERS == 2

\* variant: every run is a full run
FULL_LOAD_always == TRUE

\* FULL_LOAD = "--full" in sys.argv
FULL_LOAD == "--full" \in argv

\* variant: every pre-fetched id is stale
stale_ids_unfiltered(existing, raw) == existing

\* variant: no id is stale
stale_ids_none(existing, raw) == {}

\* stale_ids = existing_ids - raw_ids
stale_ids(existing, raw) == existing \ raw

\* ThreadPoolExecutor(max_workers=MAX_WORKERS): a free worker takes the
\* oldest submitted task that is still waiting
runnable(ts, t) ==
    /\ ts[t].status = "queued"
    /\ \A u \in 1..(t - 1) : ts[u].status # "queued"
    /\ Cardinality({u \in DOMAIN ts : ts[u].status = "running"}) < MAX_WORKERS

\* variant: the pool is left as soon as no submitted task is waiting
pool_done_when_started(ts) == \A t \in DOMAIN ts : ts[t].status # "queued"

\* variant: the loop over the futures is left at the first failed batch
pool_done_at_failure(ts) ==
    \/ \A t \in DOMAIN ts : ts[t].status = "collected"
    \/ \E t \in DOMAIN ts : ts[t].status = "collected" /\ ts[t].call.result = 0

\* for future in as_completed(futures) has yielded every future
pool_done(ts) == \A t \in DOMAIN ts : ts[t].status = "collected"

\* variant: the last result replaces the total
add_count_overwriting(total, count) == count

\* total_inserted += count, total_updated += count
add_count(total, count) == total + count

\* the pre-fetch, every insert and update batch and every DELETE succeeded
RunClean ==
    /\ prefetch_ok
    /\ \A t \in DOMAIN tasks : task_state[t].call.result = Len(tasks[t].batch)
    /\ total_deleted = Cardinality(delete_requested)

SyncInit ==
    /\ spc = "prefetch"
    /\ df_empty \in BOOLEAN
    /\ sync_records \in SyncRecordLists
    /\ df_empty => sync_records = <<>>
    /\ directus \in SUBSET DirectusIds
    /\ existing_ids = None
    /\ to_insert = <<>>
    /\ to_update = <<>>
    /\ tasks = <<>>
    /\ rerun = FALSE
    /\ first_clean = FALSE
    /\ prefetch_ok = FALSE
    /\ task_state = <<>>
    /\ total_inserted = 0
    /\ total_updated = 0
    /\ total_deleted = 0
    /\ stale_left = {}
    /\ delete_requested = {}
    /\ auth_failed = FALSE
    /\ argv \in {{}, {"--full"}}
    /\ offset = 0
    /\ PipelineIdle
    /\ RecordIdle
    /\ BatchIdle

\* if len(df) == 0: return
NoEntries ==
    /\ spc = "prefetch"
    /\ df_empty
    /\ spc' = "returned"
    /\ UNCHANGED <<sync_records, directus, existing_ids, to_insert, to_update,
                   tasks, df_empty, argv, offset, rerun, first_clean, prefetch_ok, task_state,
                   total_inserted, total_updated, total_deleted, stale_left,
                   delete_requested, auth_failed>>
    /\ UNCHANGED recordVars
    /\ UNCHANGED pipelineVars
    /\ UNCHANGED batchVars

\* existing_ids = get_all_directus_ids().  last is the response that ended
\* the loop: a 200 with a short or empty page after every id was read, or
\* an error status or exception after the pages read so far (with pages of
\* one id in an order the destination chooses, any subset of the ids).
GetAllDirectusIds ==
    /\ spc = "prefetch"
    /\ ~df_empty
    /\ FULL_LOAD
    /\ \E fetched \in SUBSET directus, last \in Responses :
          /\ last = Some(200) => fetched = directus
          /\ existing_ids' = Some(fetched)
          /\ prefetch_ok' = (last = Some(200))
          /\ auth_failed' = (last = Some(401))
    /\ spc' = "sync"
    /\ UNCHANGED <<sync_records, directus, to_insert, to_update, tasks,
                   df_empty, argv, offset, rerun, first_clean, task_state, total_inserted,
                   total_updated, total_deleted, stale_left, delete_requested>>
    /\ UNCHANGED recordVars
    /\ UNCHANGED pipelineVars
    /\ UNCHANGED batchVars

\* sync_to_directus, full mode, up to the submission of the batches
SyncPartition ==
    /\ spc = "sync"
    /\ existing_ids # None
    /\ to_insert' = partition_insert(sync_records, existing_ids[1])
    /\ to_update' = partition_update(sync_records, existing_ids[1])
    /\ tasks' = build_tasks(to_insert', to_update')
    /\ task_state' = [t \in DOMAIN tasks' |->
                         [status |-> "queued",
                          call |-> batch_start(tasks'[t].op, Len(tasks'[t].batch)),
                          acked |-> FALSE]]
    /\ total_inserted' = 0
    /\ total_updated' = 0
    /\ spc' = "dispatch"
    /\ UNCHANGED <<sync_records, directus, existing_ids, df_empty, argv, offset, rerun,
                   first_clean, prefetch_ok, total_deleted, stale_left,
                   delete_requested, auth_failed>>
    /\ UNCHANGED recordVars
    /\ UNCHANGED pipelineVars
    /\ UNCHANGED batchVars


\* a worker of the pool takes a submitted task
StartTask ==
    /\ spc = "dispatch"
    /\ \E t \in DOMAIN tasks :
          /\ runnable(task_state, t)
          /\ task_state' = [task_state EXCEPT ![t].status = "running"]
    /\ UNCHANGED <<spc, sync_records, directus, existing_ids, to_insert,
                   to_update, tasks, df_empty, argv, offset, rerun, first_clean, prefetch_ok,
                   total_inserted, total_updated, total_deleted, stale_left,
                   delete_requested, auth_failed>>
    /\ UNCHANGED recordVars
    /\ UNCHANGED pipelineVars
    /\ UNCHANGED batchVars

\* one request of batch_insert or batch_update in a worker thread; an
\* acknowledged POST stores the ids of its batch
TaskRequest ==
    /\ spc = "dispatch"
    /\ \E t \in DOMAIN tasks, resp \in Responses :
          LET c == batch_attempt(task_state[t].call, resp)
          IN  /\ task_state[t].status = "running"
              /\ task_state' = [task_state EXCEPT
                                   ![t] = [status |-> IF c.returned THEN "done"
                                                      ELSE "running",
                                           call |-> c,
                                           acked |-> succeeded(tasks[t].op, resp)]]
              /\ directus' = IF tasks[t].op = "insert" /\ succeeded("insert", resp)
                             THEN directus \cup {tasks[t].batch[k].id :
                                                    k \in DOMAIN tasks[t].batch}
                             ELSE directus
              /\ auth_failed' = (auth_failed \/ resp = Some(401))
    /\ UNCHANGED <<spc, sync_records, existing_ids, to_insert, to_update,
                   tasks, df_empty, argv, offset, rerun, first_clean, prefetch_ok,
                   total_inserted, total_updated, total_deleted, stale_left,
                   delete_requested>>
    /\ UNCHANGED recordVars
    /\ UNCHANGED pipelineVars
    /\ UNCHANGED batchVars

\* for future in as_completed(futures): count = future.result()
CollectResult ==
    /\ spc = "dispatch"
    /\ \E t \in DOMAIN tasks :
          /\ task_state[t].status = "done"
          /\ task_state' = [task_state EXCEPT ![t].status = "collected"]
          /\ total_inserted' = IF tasks[t].op = "insert"
                               THEN add_count(total_inserted, task_state[t].call.result)
                               ELSE total_inserted
          /\ total_updated' = IF tasks[t].op = "insert"
                              THEN total_updated
                              ELSE add_count(total_updated, task_state[t].call.result)
    /\ UNCHANGED <<spc, sync_records, directus, existing_ids, to_insert,
                   to_update, tasks, df_empty, argv, offset, rerun, first_clean, prefetch_ok,
                   total_deleted, stale_left, delete_requested, auth_failed>>
    /\ UNCHANGED recordVars
    /\ UNCHANGED pipelineVars
    /\ UNCHANGED batchVars

\* sync_to_directus returns; main computes raw_ids and stale_ids and, when
\* there is no stale id, posts the summary
SyncReturn ==
    /\ spc = "dispatch"
    /\ pool_done(task_state)
    /\ stale_left' = IF FULL_LOAD
                     THEN stale_ids(existing_ids[1],
                                    {sync_records[i].id : i \in DOMAIN sync_records})
                     ELSE {}
    /\ total_deleted' = 0
    /\ spc' = IF stale_left' = {} THEN "summary" ELSE "delete"
    /\ UNCHANGED <<sync_records, directus, existing_ids, to_insert, to_update,
                   tasks, df_empty, argv, offset, rerun, first_clean, prefetch_ok, task_state,
                   total_inserted, total_updated, delete_requested, auth_failed>>
    /\ UNCHANGED recordVars
    /\ UNCHANGED pipelineVars
    /\ UNCHANGED batchVars

\* delete_stale_records_by_ids: the next slice of list(stale_ids), in the
\* order the set yields, is sent in one DELETE; after the last slice main
\* posts the summary
DeleteBatch ==
    /\ spc = "delete"
    /\ \E batch \in SUBSET stale_left, resp \in Responses :
          LET c == delete_attempt(batch_start("delete", Cardinality(batch)), resp)
          IN  /\ batch # {}
              /\ Cardinality(batch) = BATCH_SIZE \/ batch = stale_left
              /\ Cardinality(batch) <= BATCH_SIZE
              /\ delete_requested' = delete_requested \cup batch
              /\ total_deleted' = total_deleted + c.result
              /\ directus' = IF c.result > 0 THEN directus \ batch ELSE directus
              /\ stale_left' = stale_left \ batch
              /\ auth_failed' = (auth_failed \/ resp = Some(401))
    /\ spc' = IF stale_left' = {} THEN "summary" ELSE "delete"
    /\ UNCHANGED <<sync_records, existing_ids, to_insert, to_update, tasks,
                   df_empty, argv, offset, rerun, first_clean, prefetch_ok, task_state,
                   total_inserted, total_updated>>
    /\ UNCHANGED recordVars
    /\ UNCHANGED pipelineVars
    /\ UNCHANGED batchVars

\* the script is started again on the same export: main() from the top
\* with the destination as the finished run left it
Rerun ==
    /\ spc = "summary"
    /\ ~rerun
    /\ rerun' = TRUE
    /\ first_clean' = RunClean
    /\ spc' = "prefetch"
    /\ existing_ids' = None
    /\ to_insert' = <<>>
    /\ to_update' = <<>>
    /\ tasks' = <<>>
    /\ task_state' = <<>>
    /\ prefetch_ok' = FALSE
    /\ total_inserted' = 0
    /\ total_updated' = 0
    /\ total_deleted' = 0
    /\ stale_left' = {}
    /\ delete_requested' = {}
    /\ auth_failed' = FALSE
    /\ offset' = 0
    /\ UNCHANGED <<sync_records, directus, df_empty, argv>>
    /\ UNCHANGED recordVars
    /\ UNCHANGED pipelineVars
    /\ UNCHANGED batchVars

(* Incremental mode: existing_ids stays None and sync_to_directus takes    *)
(* the sequential path, one process_batch per slice of the records         *)

\* existing_ids = None; if FULL_LOAD: ... is skipped
NoPrefetch ==
    /\ spc = "prefetch"
    /\ ~df_empty
    /\ ~FULL_LOAD
    /\ spc' = "sync"
    /\ UNCHANGED <<sync_records, directus, existing_ids, to_insert, to_update,
                   tasks, df_empty, argv, offset, rerun, first_clean,
                   prefetch_ok, task_state, total_inserted, total_updated,
                   total_deleted, stale_left, delete_requested, auth_failed>>
    /\ UNCHANGED recordVars
    /\ UNCHANGED pipelineVars
    /\ UNCHANGED batchVars

\* batch = records[i:i + BATCH_SIZE]
batch_at(recs, i) ==
    SubSeq(recs, i + 1, IF i + BATCH_SIZE < Len(recs) THEN i + BATCH_SIZE ELSE Len(recs))

\* if to_insert: batch_insert(to_insert); if to_update: batch_update(to_update)
process_tasks(ins, upd) ==
    (IF ins # <<>> THEN <<[op |-> "insert", batch |-> ins]>> ELSE <<>>)
    \o (IF upd # <<>> THEN <<[op |-> "update", batch |-> upd]>> ELSE <<>>)

\* process_batch up to its first write: get_existing_ids(batch_ids) asks
\* for the ids in chunks and keeps the ids of the chunks answered with 200
\* (last is the worst answer); then the batch is split
ProcessBatchQuery ==
    /\ spc = "sync"
    /\ existing_ids = None
    /\ offset < Len(sync_records)
    /\ LET batch == batch_at(sync_records, offset)
           stored == {batch[k].id : k \in DOMAIN batch} \cap directus
       IN  \E found \in SUBSET stored, last \in Responses :
               /\ last = Some(200) => found = stored
               /\ to_insert' = partition_insert(batch, found)
               /\ to_update' = partition_update(batch, found)
               /\ auth_failed' = (auth_failed \/ last = Some(401))
    /\ tasks' = process_tasks(to_insert', to_update')
    /\ task_state' = [t \in DOMAIN tasks' |->
                         [status |-> "queued",
                          call |-> batch_start(tasks'[t].op, Len(tasks'[t].batch)),
                          acked |-> FALSE]]
    /\ spc' = "process"
    /\ UNCHANGED <<sync_records, directus, existing_ids, df_empty, argv, offset,
                   rerun, first_clean, prefetch_ok, total_inserted,
                   total_updated, total_deleted, stale_left, delete_requested>>
    /\ UNCHANGED recordVars
    /\ UNCHANGED pipelineVars
    /\ UNCHANGED batchVars

\* one request of batch_insert, or of batch_update once batch_insert has
\* returned
ProcessBatchRequest ==
    /\ spc = "process"
    /\ \E t \in DOMAIN tasks, resp \in Responses :
          LET c == batch_attempt(task_state[t].call, resp)
          IN  /\ ~task_state[t].call.returned
              /\ \A u \in 1..(t - 1) : task_state[u].call.returned
              /\ task_state' = [task_state EXCEPT
                                   ![t] = [status |-> IF c.returned THEN "done"
                                                      ELSE "running",
                                           call |-> c,
                                           acked |-> succeeded(tasks[t].op, resp)]]
              /\ directus' = IF tasks[t].op = "insert" /\ succeeded("insert", resp)
                             THEN directus \cup {tasks[t].batch[k].id :
                                                    k \in DOMAIN tasks[t].batch}
                             ELSE directus
              /\ auth_failed' = (auth_failed \/ resp = Some(401))
    /\ UNCHANGED <<spc, sync_records, existing_ids, to_insert, to_update,
                   tasks, df_empty, argv, offset, rerun, first_clean,
                   prefetch_ok, total_inserted, total_updated, total_deleted,
                   stale_left, delete_requested>>
    /\ UNCHANGED recordVars
    /\ UNCHANGED pipelineVars
    /\ UNCHANGED batchVars

\* process_batch returns (inserted, updated); the loop of sync_to_directus
\* adds them to the totals and goes to the next slice
ProcessBatchReturn ==
    /\ spc = "process"
    /\ \A t \in DOMAIN tasks : task_state[t].call.returned
    /\ LET count(op) ==
               IF \E t \in DOMAIN tasks : tasks[t].op = op
               THEN task_state[CHOOSE t \in DOMAIN tasks : tasks[t].op = op].call.result
               ELSE 0
       IN  /\ total_inserted' = add_count(total_inserted, count("insert"))
           /\ total_updated' = add_count(total_updated, count("update"))
    /\ offset' = offset + BATCH_SIZE
    /\ to_insert' = <<>>
    /\ to_update' = <<>>
    /\ tasks' = <<>>
    /\ task_state' = <<>>
    /\ spc' = "sync"
    /\ UNCHANGED <<sync_records, directus, existing_ids, df_empty, argv, rerun,
                   first_clean, prefetch_ok, total_deleted, stale_left,
                   delete_requested, auth_failed>>
    /\ UNCHANGED recordVars
    /\ UNCHANGED pipelineVars
    /\ UNCHANGED batchVars

\* sync_to_directus returns from the sequential path; main tests FULL_LOAD
\* before the deletion step and posts the summary
IncrementalReturn ==
    /\ spc = "sync"
    /\ existing_ids = None
    /\ offset >= Len(sync_records)
    /\ stale_left' = IF FULL_LOAD
                     THEN stale_ids(existing_ids[1],
                                    {sync_records[i].id : i \in DOMAIN sync_records})
                     ELSE {}
    /\ total_deleted' = 0
    /\ spc' = IF stale_left' = {} THEN "summary" ELSE "delete"
    /\ UNCHANGED <<sync_records, directus, existing_ids, to_insert, to_update,
                   tasks, df_empty, argv, offset, rerun, first_clean,
                   prefetch_ok, task_state, total_inserted, total_updated,
                   delete_requested, auth_failed>>
    /\ UNCHANGED recordVars
    /\ UNCHANGED pipelineVars
    /\ UNCHANGED batchVars

SyncNext ==
    \/ NoEntries
    \/ GetAllDirectusIds
    \/ SyncPartition
    \/ StartTask
    \/ TaskRequest
    \/ CollectResult
    \/ SyncReturn
    \/ DeleteBatch
    \/ Rerun
    \/ NoPrefetch
    \/ ProcessBatchQuery
    \/ ProcessBatchRequest
    \/ ProcessBatchReturn
    \/ IncrementalReturn

SpecSync == SyncInit /\ [][SyncNext]_vars

-----------------------------------------------------------------------------
(* Properties of the plausibility pipeline (Spec) *)

RecordIdsSeen ==
    {records[i].id : i \in DOMAIN records} \cup {result[i].id : i \in DOMAIN result}

Count(rs, id) == Cardinality({i \in DOMAIN rs : rs[i].id = id})

IsBatteryRecord(r) == r.technology = Some("Batterie")

\* C1: the orchestrator's output has as many records as its input and the
\* same multiset of ids; every input record is exactly once among the
\* non-battery, accepted and corrected records.
C1_Coverage ==
    pc = "checked" =>
        /\ Len(result) = Len(records)
        /\ Len(non_batteries) + Len(valid) + Len(corrected) = Len(records)
        /\ \A id \in RecordIdsSeen :
              /\ Count(result, id) = Count(records, id)
              /\ Count(non_batteries, id) + Count(valid, id) + Count(corrected, id)
                    = Count(records, id)

C1_Witness ==
    /\ pc = "checked"
    /\ Len(records) = 3
    /\ non_batteries # <<>>
    /\ valid # <<>>
    /\ corrected # <<>>
    /\ \E i, j \in DOMAIN records : i # j /\ records[i].id = records[j].id

\* C2: every record in the orchestrator's output has a non-null category,
\* whatever fields (technology included) are absent in the input.
C2_CategoryNeverNull ==
    pc = "checked" => \A i \in DOMAIN result : result[i].category # None

\* C3: no battery operated by a natural person leaves the orchestrator as
\* Grossspeicher; a battery with capacity 1200, power 1500 and a
\* natural-person operator (sub-technology and date present) passes the
\* consistency filter, is demoted by the classifier and is handed to the
\* corrector, which returns it as Heimspeicher.
C3_NaturalPersonNeverGross ==
    pc = "checked" =>
        /\ \A i \in DOMAIN result :
              IsBatteryRecord(result[i]) /\ result[i].is_natural_person
                  => result[i].category # Some("Grossspeicher")
        /\ \A i \in DOMAIN records :
              LET r == records[i]
              IN  /\ IsBatteryRecord(r)
                  /\ r.usable_storage_capacity_kwh = Some(1200000)
                  /\ r.power_kw = Some(1500000)
                  /\ r.is_natural_person
                  /\ Truthy(r.battery_technology)
                  /\ TruthyText(r.commissioning_date)
                  => /\ passes_consistency_check(r)
                     /\ categorize_battery(r) = None
                     /\ \E j \in DOMAIN filtered : filtered[j] = r
                     /\ \E j \in DOMAIN corrected :
                           /\ corrected[j].id = r.id
                           /\ corrected[j].is_natural_person
                           /\ corrected[j].category = Some("Heimspeicher")

C3_Witness ==
    /\ pc = "checked"
    /\ \E j \in DOMAIN filtered :
          /\ filtered[j].usable_storage_capacity_kwh = Some(1200000)
          /\ filtered[j].power_kw = Some(1500000)
          /\ filtered[j].is_natural_person
    /\ \E j \in DOMAIN valid : valid[j].category = Some("Grossspeicher")

\* C7: every corrected record is Heimspeicher when its operator is a natural
\* person and Gewerbespeicher otherwise, never Grossspeicher.
C7_CorrectedCategory ==
    pc = "checked" =>
        \A i \in DOMAIN corrected :
            /\ corrected[i].category =
                  Some(IF corrected[i].is_natural_person
                       THEN "Heimspeicher" ELSE "Gewerbespeicher")
            /\ corrected[i].category # Some("Grossspeicher")

C7_Witness ==
    /\ pc = "checked"
    /\ \E i \in DOMAIN corrected :
          /\ ~corrected[i].is_natural_person
          /\ filtered[i].usable_storage_capacity_kwh = Some(1200000)
          /\ filtered[i].power_kw = Some(1200000)
    /\ \E i \in DOMAIN corrected : corrected[i].is_natural_person
    /\ \E j \in DOMAIN valid : valid[j].category = Some("Grossspeicher")

\* the accepted records of a category, and those of a category and month
PeersInCategory(cat) ==
    LET In(r) == r.category = cat
    IN  SelectSeq(valid, In)

PeersInMonth(cat, month) ==
    LET In(r) == r.category = cat /\ MonthOf(r.commissioning_date) = month
    IN  SelectSeq(valid, In)

\* v is the exact mean of total over n samples
IsMean(v, total, n) == v # None /\ v[1] * n = total

\* v is the mean of total over n samples, rounded to two decimal places
IsRoundedMean(v, total, n) ==
    /\ v # None
    /\ v[1] % RoundStep = 0
    /\ 2 * (v[1] * n - total) <= RoundStep * n
    /\ 2 * (total - v[1] * n) <= RoundStep * n

\* C8 as stated: a corrected record takes the mean of its (category, month)
\* bucket when the bucket is not empty, else the mean of its category when
\* an accepted record has that category.
C8_ExactMeans ==
    pc = "checked" =>
        \A i \in DOMAIN corrected :
            LET c == corrected[i]
                month == MonthOf(filtered[i].commissioning_date)
                mb == IF month = None THEN <<>> ELSE PeersInMonth(c.category, month)
                cb == PeersInCategory(c.category)
            IN  IF mb # <<>>
                THEN /\ IsMean(c.usable_storage_capacity_kwh, SumCap(mb), Len(mb))
                     /\ IsMean(c.power_kw, SumPwr(mb), Len(mb))
                ELSE cb # <<>> =>
                     /\ IsMean(c.usable_storage_capacity_kwh, SumCap(cb), Len(cb))
                     /\ IsMean(c.power_kw, SumPwr(cb), Len(cb))

\* C8 amended: a corrected record takes the mean of its (category, month)
\* bucket, rounded to two decimal places, when the bucket is not empty, else
\* the rounded mean of its category when an accepted record has that
\* category; the monthly mean takes precedence.
C8_RoundedMeans ==
    pc = "checked" =>
        /\ Len(corrected) = Len(filtered)
        /\ \A i \in DOMAIN corrected :
            LET c == corrected[i]
                month == MonthOf(filtered[i].commissioning_date)
                mb == IF month = None THEN <<>> ELSE PeersInMonth(c.category, month)
                cb == PeersInCategory(c.category)
            IN  IF mb # <<>>
                THEN /\ IsRoundedMean(c.usable_storage_capacity_kwh, SumCap(mb), Len(mb))
                     /\ IsRoundedMean(c.power_kw, SumPwr(mb), Len(mb))
                ELSE cb # <<>> =>
                     /\ IsRoundedMean(c.usable_storage_capacity_kwh, SumCap(cb), Len(cb))
                     /\ IsRoundedMean(c.power_kw, SumPwr(cb), Len(cb))

\* a rejected record whose month bucket and category bucket have different means
C8_Witness ==
    /\ pc = "checked"
    /\ \E i \in DOMAIN corrected :
          LET c == corrected[i]
              month == MonthOf(filtered[i].commissioning_date)
          IN  /\ month # None
              /\ PeersInMonth(c.category, month) # <<>>
              /\ Len(PeersInCategory(c.category)) > Len(PeersInMonth(c.category, month))
              /\ c.usable_storage_capacity_kwh # filtered[i].usable_storage_capacity_kwh

\* C9: the reference population is the accepted set (consistent batteries
\* that the classifier gave a category), and each rejected record is
\* corrected as if it were the only rejected record: no corrected record
\* feeds the averages of another, whatever the order.
C9_NoCorrectionChains ==
    pc = "checked" =>
        /\ \A j \in DOMAIN valid :
              /\ IsBatteryRecord(valid[j])
              /\ passes_consistency_check(valid[j])
              /\ Truthy(valid[j].category)
              /\ valid[j].category = categorize_battery(valid[j])
              /\ \E k \in DOMAIN records :
                    valid[j] = [records[k] EXCEPT !.category = valid[j].category]
        /\ Len(corrected) = Len(filtered)
        /\ \E ties \in TieChoices :
              \A i \in DOMAIN filtered :
                  corrected[i] = correct_filtered_entries(<<filtered[i]>>, valid, ties)[1]
        /\ \A i, j \in DOMAIN filtered :
              filtered[i] = filtered[j] => corrected[i] = corrected[j]

C9_Witness ==
    /\ pc = "checked"
    /\ Len(filtered) = 2
    /\ valid # <<>>
    /\ filtered[1] # filtered[2]
    /\ corrected[1].category = corrected[2].category
    /\ corrected[1].usable_storage_capacity_kwh # filtered[1].usable_storage_capacity_kwh

-----------------------------------------------------------------------------
(* Properties of the filter and the classifier (SpecRecord) *)

Filtered == rpc \in {"categorize", "filtered", "valid", "demoted"}

Classified == rpc \in {"valid", "demoted"}

Present(field) == field # None /\ field[1] # ""

PresentText(field) == field # None /\ field[1] # <<>>

\* the voltage level names the low-voltage grid
IsLowVoltage(r) == Contains(niederspannung, Lower(OrEmpty(r.voltage_level)))

\* the review status is "Geprueft" (either spelling, any case)
IsReviewed(r) ==
    Lower(OrEmpty(r.grid_operator_review_status)) \in {geprueft, gepruft}

\* C4: a consistent battery with capacity >= 1000 and power >= 1000 on the
\* low-voltage grid whose review status is absent or a not-reviewed value is
\* demoted by the classifier, never Grossspeicher.
C4_LowVoltageUnreviewedDemoted ==
    /\ Classified
    /\ record.usable_storage_capacity_kwh[1] >= 1000000
    /\ record.power_kw[1] >= 1000000
    /\ IsLowVoltage(record)
    /\ ~IsReviewed(record)
    => /\ rpc = "demoted"
       /\ segment # Some("Grossspeicher")

\* C5: for a consistent record the classifier returns Heimspeicher iff
\* capacity < 30 and power < 30; otherwise, with capacity >= 1000 and
\* power >= 1000, Grossspeicher when both guards pass and None when one
\* fails; otherwise Gewerbespeicher.  Capacity 30.0 with power 29.9 is
\* Gewerbespeicher, and None is returned to guarded candidates only.
C5_DecisionTable ==
    Classified =>
        LET cap == record.usable_storage_capacity_kwh[1]
            pwr == record.power_kw[1]
            heim == cap < 30000 /\ pwr < 30000
            candidate == cap >= 1000000 /\ pwr >= 1000000
            guarded == fails_operator_guard(record) \/ fails_voltage_guard(record)
        IN  /\ segment = Some("Heimspeicher") <=> heim
            /\ ~heim /\ candidate /\ ~guarded => segment = Some("Grossspeicher")
            /\ ~heim /\ candidate /\ guarded => segment = None
            /\ ~heim /\ ~candidate => segment = Some("Gewerbespeicher")
            /\ cap = 30000 /\ pwr = 29900 => segment = Some("Gewerbespeicher")
            /\ segment = None => candidate /\ guarded

C5_Witness ==
    /\ rpc = "valid"
    /\ record.usable_storage_capacity_kwh = Some(30000)
    /\ record.power_kw = Some(29900)
    /\ segment = Some("Gewerbespeicher")

-----------------------------------------------------------------------------
(* Properties of the reconciliation (SpecSync) *)

Occurrences(rs, id) == Cardinality({i \in DOMAIN rs : rs[i].id = id})

IdsIn(rs) == {rs[i].id : i \in DOMAIN rs}

\* C10: in full mode the insert set and the update set computed before any
\* batch is dispatched are disjoint and together are the input records; a
\* record is in the update set iff its id is in the pre-fetched id set.
C10_PartitionDisjoint ==
    spc = "dispatch" =>
        /\ IdsIn(to_insert) \cap IdsIn(to_update) = {}
        /\ Len(to_insert) + Len(to_update) = Len(sync_records)
        /\ \A id \in IncomingIds :
              /\ Occurrences(to_insert, id) + Occurrences(to_update, id)
                    = Occurrences(sync_records, id)
              /\ Occurrences(to_update, id) > 0 => id \in existing_ids[1]
              /\ Occurrences(to_insert, id) > 0 => id \notin existing_ids[1]
        /\ \A t \in DOMAIN tasks :
              \A k \in DOMAIN tasks[t].batch :
                  tasks[t].op = "update" <=> tasks[t].batch[k].id \in existing_ids[1]

C10_Witness ==
    /\ spc = "dispatch"
    /\ Len(sync_records) = 3
    /\ to_insert # <<>>
    /\ to_update # <<>>
    /\ Len(tasks) = 2
    /\ existing_ids[1] # directus

\* the run under way follows a run whose pre-fetch, batches and deletions
\* all succeeded
AfterCleanRun == rerun /\ first_clean

Partitioned == spc \in {"dispatch", "delete", "summary"}

NoInsertIssued ==
    /\ \A t \in DOMAIN tasks : tasks[t].op # "insert"
    /\ total_inserted = 0

NoDeleteIssued == delete_requested = {} /\ total_deleted = 0

C12_SecondRunNoUpdate ==
    AfterCleanRun /\ prefetch_ok =>
        /\ \A t \in DOMAIN tasks : tasks[t].op # "update"
        /\ total_updated = 0

\* C12, amended: the second run, its pre-fetch complete, submits every
\* input record in an update batch, and when these batches succeed the
\* updated count is the number of input records.
C12_SecondRunUpdatesEveryRecord ==
    AfterCleanRun /\ prefetch_ok /\ Partitioned =>
        /\ to_update = sync_records
        /\ \A t \in DOMAIN tasks : tasks[t].op = "update"
        /\ spc = "summary" /\ RunClean => total_updated = Len(sync_records)

C12_Witness ==
    /\ AfterCleanRun
    /\ prefetch_ok
    /\ spc = "summary"
    /\ Len(tasks) = 2
    /\ total_updated = 3

\* C13: the ids sent in DELETE requests are ids of the pre-fetched set
\* that are not incoming, and once the deletion step is over they are
\* exactly the pre-fetched set minus the incoming ids, whether the
\* pre-fetch was complete, partial or empty.
C13_DeleteSet ==
    /\ delete_requested \cap IdsIn(sync_records) = {}
    /\ existing_ids = None => delete_requested = {}
    /\ existing_ids # None => delete_requested \subseteq existing_ids[1]
    /\ FULL_LOAD /\ spc = "summary" =>
          delete_requested = existing_ids[1] \ IdsIn(sync_records)

C13_Witness ==
    /\ spc = "summary"
    /\ ~prefetch_ok
    /\ delete_requested # {}
    /\ existing_ids[1] \cap IdsIn(sync_records) # {}
    /\ \E id \in directus : id \notin IdsIn(sync_records)

\* C14: whatever ids the destination held at the start, a full-mode run
\* whose pre-fetch, insert and update batches and deletions all succeed
\* ends with the destination holding exactly the incoming ids.
C14_Healing ==
    spc = "summary" /\ RunClean => directus = IdsIn(sync_records)

C14_Witness ==
    /\ spc = "summary"
    /\ RunClean
    /\ ~rerun
    /\ total_inserted > 0
    /\ total_updated > 0
    /\ total_deleted > 0

-----------------------------------------------------------------------------
(* Properties of one batch call (SpecBatch) *)

IsWrite == call.op \in {"insert", "update"}

LastResponse == responses[Len(responses)]

\* a status that is neither a success for the operation nor 503
permanent(op, resp) ==
    resp # None /\ resp[1] \notin success_status(op) /\ resp[1] # 503

\* C15: batch_insert and batch_update send the batch again after a 503,
\* sleeping retry_delay * 2^attempt after the attempt (each sleep twice the
\* one before); they make at most max_retries requests, have returned
\* once max_retries requests are made, return len(batch) at the first
\* success and 0 when every attempt was answered 503.
C15_BoundedRetry ==
    IsWrite =>
        /\ call.requests = Len(responses)
        /\ call.requests <= max_retries
        /\ call.requests = max_retries => call.returned
        /\ ~call.returned => \A i \in DOMAIN responses : retried(responses[i])
        /\ \A i \in DOMAIN sleeps :
              /\ sleeps[i] = retry_delay * (2 ^ (i - 1))
              /\ i > 1 => sleeps[i] = 2 * sleeps[i - 1]
        /\ \A i \in DOMAIN responses :
              responses[i] = Some(503) =>
                  /\ Len(sleeps) >= i
                  /\ i < max_retries => Len(responses) > i \/ ~call.returned
        /\ responses # <<>> /\ succeeded(call.op, LastResponse) =>
              call.returned /\ call.result = call.size
        /\ call.returned /\ responses # <<>> /\ ~succeeded(call.op, LastResponse) =>
              call.result = 0
        /\ call.result \in {0, call.size}

C15_Witness ==
    /\ call.op = "insert"
    /\ call.size = 2
    /\ responses = <<Some(503), Some(503), Some(201)>>
    /\ sleeps = <<2, 4>>
    /\ call.returned
    /\ call.result = 2

\* C16: a status other than a success and other than 503 ends the call of
\* batch_insert or batch_update: it is the last response, no sleep follows
\* it, the call has returned 0; when it answers the first request exactly
\* one request was made.
C16_PermanentFailureNotRetried ==
    IsWrite =>
        \A i \in DOMAIN responses :
            permanent(call.op, responses[i]) =>
                /\ i = Len(responses)
                /\ call.requests = i
                /\ Len(sleeps) = i - 1
                /\ call.returned
                /\ call.result = 0

C16_Witness ==
    /\ call.op = "update"
    /\ call.size = 2
    /\ responses = <<Some(401)>>
    /\ call.requests = 1
    /\ call.returned

\* C17: a DELETE batch answered 503 is sent again (with backoff) as long
\* as fewer than max_retries requests were made for it.
C17_DeleteRetried ==
    /\ call.op = "delete"
    /\ responses # <<>>
    /\ LastResponse = Some(503)
    /\ Len(responses) < max_retries
    => ~call.returned /\ Len(sleeps) = Len(responses)

-----------------------------------------------------------------------------
(* Properties of the run (SpecSync), continued *)

\* C18: once a response of the run had status 401 the run is aborted: it
\* does not reach the success summary.
C18_AuthFailureAborts == auth_failed => spc # "summary"

\* C19: a run without input records issues no insert, update or delete
\* request; a full-mode run deletes nothing because its incoming set is
\* empty.
C19_NoInputNoRequest ==
    sync_records = <<>> =>
        /\ tasks = <<>>
        /\ delete_requested = {}
        /\ total_deleted = 0

\* C20: when sync_to_directus has returned, every task built from the
\* partition has made at least one request and its result is collected,
\* whether the other tasks succeeded or failed.
C20_NoSiblingCancelled ==
    spc \in {"delete", "summary"} =>
        \A t \in DOMAIN tasks :
            /\ task_state[t].status = "collected"
            /\ task_state[t].call.requests >= 1
            /\ task_state[t].call.returned

C20_Witness ==
    /\ spc = "summary"
    /\ Len(tasks) = 2
    /\ task_state[1].call.result = 0
    /\ task_state[1].call.requests = 1
    /\ task_state[2].call.result > 0
    /\ auth_failed

\* C21: no two batches submitted to the worker pool contain the same
\* record id, for every record list passed to sync_to_directus.
C21_NoOverlappingBatches ==
    \A t, u \in DOMAIN tasks :
        t # u => IdsIn(tasks[t].batch) \cap IdsIn(tasks[u].batch) = {}

\* sum of the sizes of the batches of operation op that the destination
\* acknowledged, over the tasks 1..n
RECURSIVE AckedSize(_, _)
AckedSize(op, n) ==
    IF n = 0 THEN 0
    ELSE AckedSize(op, n - 1)
         + (IF tasks[n].op = op /\ task_state[n].acked
            THEN Len(tasks[n].batch) ELSE 0)

\* C22: when sync_to_directus has returned, whatever the order in which
\* the batches ran and completed, the inserted total is the sum of the sizes
\* of the acknowledged insert batches and the updated total that of the
\* acknowledged update batches; a batch counts with its full size or with
\* zero, and inserted + updated is at most the number of input records.
C22_OrderIndependentTotals ==
    /\ FULL_LOAD /\ spc \in {"delete", "summary"} =>
          /\ total_inserted = AckedSize("insert", Len(tasks))
          /\ total_updated = AckedSize("update", Len(tasks))
    /\ spc \in {"dispatch", "delete", "summary"} =>
          /\ \A t \in DOMAIN tasks :
                task_state[t].call.result \in {0, Len(tasks[t].batch)}
          /\ total_inserted + total_updated <= Len(sync_records)

C22_Witness ==
    /\ spc = "summary"
    /\ Len(tasks) = 2
    /\ tasks[1].op = "insert"
    /\ tasks[2].op = "update"
    /\ task_state[1].call.requests = 3
    /\ task_state[1].acked
    /\ task_state[2].call.requests = 1
    /\ ~task_state[2].acked
    /\ total_inserted = 2
    /\ total_updated = 0

\* C25: a run without --full has no deletion step: it fetches no id set
\* before writing, computes no stale set, sends no DELETE and reports no
\* deleted record, whatever is stored and whatever the requests answer.
C25_IncrementalNoDelete ==
    "--full" \notin argv =>
        /\ existing_ids = None
        /\ stale_left = {}
        /\ delete_requested = {}
        /\ total_deleted = 0
        /\ spc # "delete"

\* an incremental run that wrote records and ended while a stored id is
\* absent from the input
C25_Witness ==
    /\ "--full" \notin argv
    /\ spc = "summary"
    /\ ~df_empty
    /\ total_inserted > 0
    /\ total_updated > 0
    /\ directus \ IdsIn(sync_records) # {}

\* C29: in a full run a DELETE is sent only when every insert batch and
\* every update batch of the run has made its requests and returned
\* (acknowledged, given up or failed), and no batch request follows a
\* DELETE; the ids deleted come from the id set that was fetched before the
\* first write of the run and that no write changes.
C29_DeletionOrdering ==
    [][/\ (delete_requested' # delete_requested /\ delete_requested' # {}) =>
             /\ FULL_LOAD
             /\ \A t \in DOMAIN tasks :
                   /\ task_state[t].call.returned
                   /\ task_state[t].call.requests >= 1
             /\ task_state' = task_state
             /\ existing_ids' = existing_ids
             /\ (delete_requested' \ delete_requested)
                    \subseteq (existing_ids[1] \ IdsIn(sync_records))
       /\ (delete_requested # {} /\ delete_requested' # {}) =>
             task_state' = task_state
       /\ (existing_ids' # existing_ids /\ existing_ids' # None) =>
             /\ task_state = <<>>
             /\ delete_requested = {}
             /\ existing_ids'[1] \subseteq directus
       /\ (task_state' # task_state /\ task_state' # <<>>) =>
             existing_ids' = existing_ids
      ]_vars

\* a full run sent a DELETE after one batch was acknowledged and another
\* was given up
C29_Witness ==
    /\ FULL_LOAD
    /\ delete_requested # {}
    /\ \E t \in DOMAIN tasks : task_state[t].call.result > 0
    /\ \E t \in DOMAIN tasks :
          /\ task_state[t].call.result = 0
          /\ task_state[t].call.requests > 1

-----------------------------------------------------------------------------
(* Properties of the plausibility pipeline on reordered input (SpecOrder) *)

OutputTuples(rs) ==
    {<<rs[i].id, rs[i].category, rs[i].usable_storage_capacity_kwh, rs[i].power_kw>> :
        i \in DOMAIN rs}

Reordered(rs, p) == [i \in DOMAIN rs |-> rs[p[i]]]

\* C23: the output, as the set of (id, category, capacity, power) tuples,
\* is the same for every order of the same input records.  Two runs are
\* compared when they sum three or more accepted records in different
\* orders; a sum of one or two floats does not depend on the order.
C23_Deterministic ==
    pc = "checked" =>
        \A p \in Permutations(DOMAIN records), ties \in TieChoices :
            LET out == apply_plausibility_checks(Reordered(records, p), ties)
            IN  Len(out.valid) >= 3 /\ out.valid # valid =>
                    OutputTuples(out.result) = OutputTuples(result)

\* C24: every record whose technology is not Batterie leaves the
\* orchestrator with category equal to its technology, with its capacity
\* and power unchanged, and is not among the accepted, rejected or
\* corrected records.
C24_NonBatteryBypass ==
    pc = "checked" =>
        \A k \in DOMAIN records :
            records[k].technology # Some("Batterie") =>
                /\ \E i \in DOMAIN result :
                      /\ result[i].id = records[k].id
                      /\ result[i].category = records[k].technology
                      /\ result[i] = [records[k] EXCEPT !.category = result[i].category]
                /\ \A i \in DOMAIN valid : valid[i].id # records[k].id
                /\ \A i \in DOMAIN filtered : filtered[i].id # records[k].id
                /\ \A i \in DOMAIN corrected : corrected[i].id # records[k].id


-----------------------------------------------------------------------------
(* Properties of the correction step without reference data (Spec) *)

\* C28: when no accepted record has the category assigned to a rejected
\* record, the correction step still returns the record, with that
\* category and with its capacity and power (and every other field) as
\* they were, and the record is part of the result of the run.
C28_ReferenceGap ==
    pc = "checked" =>
        /\ Len(corrected) = Len(filtered)
        /\ \A i \in DOMAIN filtered :
              LET cat == Some(IF filtered[i].is_natural_person
                              THEN "Heimspeicher" ELSE "Gewerbespeicher")
              IN  PeersInCategory(cat) = <<>> =>
                      /\ corrected[i] = [filtered[i] EXCEPT !.category = cat]
                      /\ \E k \in DOMAIN result : result[k] = corrected[i]

\* a rejected record with capacity and power went through the correction
\* step while records were accepted, none of them in its category
C28_Witness ==
    /\ pc = "checked"
    /\ valid # <<>>
    /\ \E i \in DOMAIN filtered :
          /\ filtered[i].usable_storage_capacity_kwh # None
          /\ filtered[i].power_kw # None
          /\ PeersInCategory(Some(IF filtered[i].is_natural_person
                                   THEN "Heimspeicher" ELSE "Gewerbespeicher")) = <<>>
          /\ corrected[i].usable_storage_capacity_kwh =
                 filtered[i].usable_storage_capacity_kwh

-----------------------------------------------------------------------------
(* Properties of one record: the enumeration of the commercial segment,    *)
(* rejection of incomplete records, precedence of the guards (SpecRecord)  *)

\* sub-case (a): exactly one dimension is below 30 and both are below 1000
CommercialOneBelow(capacity, power) ==
    /\ (capacity < HeimLimit) # (power < HeimLimit)
    /\ capacity < GrossLimit
    /\ power < GrossLimit

\* sub-case (b): both dimensions are at least 30 and one is below 1000
CommercialMidRange(capacity, power) ==
    /\ capacity >= HeimLimit
    /\ power >= HeimLimit
    /\ capacity < GrossLimit \/ power < GrossLimit

\* C26: for every record that passed the consistency filter,
\* categorize_battery returns Gewerbespeicher exactly when (a) exactly one
\* of capacity < 30, power < 30 holds and both are below 1000, or (b) both
\* are at least 30 and at least one is below 1000; and every consistent
\* record is residential, a utility-scale candidate, or in (a) or (b).
C26_CommercialEnumeration ==
    rpc \in {"valid", "demoted"} =>
        LET capacity == record.usable_storage_capacity_kwh[1]
            power == record.power_kw[1]
            enumerated == \/ CommercialOneBelow(capacity, power)
                          \/ CommercialMidRange(capacity, power)
        IN  /\ consistent
            /\ segment = Some("Gewerbespeicher") <=> enumerated
            /\ \/ capacity < HeimLimit /\ power < HeimLimit
               \/ capacity >= GrossLimit /\ power >= GrossLimit
               \/ enumerated

\* a consistent record with capacity below 30 and power of at least 30 was
\* classified as commercial
C26_Witness ==
    /\ rpc = "valid"
    /\ segment = Some("Gewerbespeicher")
    /\ record.usable_storage_capacity_kwh[1] < HeimLimit
    /\ record.power_kw[1] >= HeimLimit

\* a record with an operand of the filter missing: no capacity, no power,
\* zero power, no battery technology or no commissioning date
Incomplete(r) ==
    \/ r.usable_storage_capacity_kwh = None
    \/ r.power_kw = None
    \/ r.power_kw = Some(0)
    \/ ~Truthy(r.battery_technology)
    \/ ~TruthyText(r.commissioning_date)

\* C27: for a battery record without capacity, without power, with zero
\* power, without battery technology or without commissioning date,
\* passes_consistency_check returns False (it has a value, it does not
\* raise); the record goes to the rejected list, never to the classifier,
\* and the correction step returns it.
C27_RejectionNotError ==
    rpc # "filter" /\ Incomplete(record) =>
        /\ consistent = FALSE
        /\ rpc \in {"filtered", "corrected"}
        /\ rpc = "corrected" =>
              /\ corrected_record # None
              /\ corrected_record[1].id = record.id
              /\ Truthy(corrected_record[1].category)

\* a record with zero power and no commissioning date came out of the
\* correction step
C27_Witness ==
    /\ rpc = "corrected"
    /\ record.power_kw = Some(0)
    /\ record.usable_storage_capacity_kwh # None
    /\ record.commissioning_date = None
    /\ corrected_record # None

\* the record passed the filter and categorize_battery returned None
Demoted == rpc \in {"demoted", "corrected"} /\ consistent

\* categorize_battery returned at guard (a)
DemotedByOperatorGuard == Demoted /\ fails_operator_guard(record)

\* categorize_battery went past guard (a) and returned at guard (b)
DemotedByVoltageGuard ==
    Demoted /\ ~fails_operator_guard(record) /\ fails_voltage_guard(record)

\* C30: guard (a) is evaluated before guard (b), so a demoted record was
\* demoted by exactly one of them and never by guard (b) when its operator
\* is a natural person; the correction step makes every record demoted by
\* guard (b) Gewerbespeicher and every record demoted by guard (a)
\* Heimspeicher.
C30_GuardPrecedence ==
    Demoted =>
        /\ ~Truthy(segment)
        /\ DemotedByOperatorGuard # DemotedByVoltageGuard
        /\ DemotedByVoltageGuard => ~record.is_natural_person
        /\ rpc = "corrected" =>
              /\ DemotedByVoltageGuard =>
                    corrected_record[1].category = Some("Gewerbespeicher")
              /\ DemotedByOperatorGuard =>
                    corrected_record[1].category = Some("Heimspeicher")

\* a natural person's record that also meets the condition of guard (b)
\* was demoted and corrected
C30_Witness ==
    /\ rpc = "corrected"
    /\ consistent
    /\ record.is_natural_person
    /\ fails_voltage_guard(record)
    /\ corrected_record[1].category = Some("Heimspeicher")

====
